---- MODULE Spec2Model ----
(***************************************************************************)
(* Model of OpenSim::DataTable_<ETX, ETY> (OpenSim/Common/DataTable.h):    *)
(* the independent column _indData, the dependent matrix _depData, the     *)
(* three metadata stores, and the row / column accessors and mutators.     *)
(* Indices are the 0-based indices of the C++ code; the sequences of the   *)
(* model are 1-based, so element i of the code is element i + 1 here.      *)
(***************************************************************************)
EXTENDS Integers, Sequences, FiniteSets, TLC

VARIABLES
    indData,              \* std::vector<ETX> _indData
    depData,              \* SimTK::Matrix_<ETY> _depData: [nrow, ncol, data]
    dependentsMetaData,   \* key -> value array
    independentMetaData,  \* key -> value
    tableMetaData,        \* key -> value
    last,                 \* the call the caller has just made and its outcome
    pre                   \* the table as it was when that call started

vars == <<indData, depData, dependentsMetaData, independentMetaData,
          tableMetaData, last, pre>>

----------------------------------------------------------------------------
(* Bounds of the exploration.                                              *)

MaxRows == 2        \* appendRow is explored while _indData.size() < MaxRows
MaxWidth == 2       \* rows handed to appendRow have 0..MaxWidth elements

MaxComponents == 2  \* flattened elements are Vec<m> and Vec<m, Vec<n>>
                    \* with m, n <= MaxComponents

Elems == {0, 1}     \* values of ETY
IndVals == {0, 1}   \* values of ETX

\* Column labels: the n labels "1" .. "n", as testDataTable.cpp makes them.
LabelsOfLength(n) == [i \in 1..n |-> ToString(i)]

\* The rows of w elements the exploration uses, as appended rows, as rows
\* written through views and as the contents of uninitialized rows: every
\* element the same value (the rows of testDataTable.cpp), and the row that
\* alternates 1, 0, 1, ...
RowsOfWidth(w) ==
    {[c \in 1..w |-> e] : e \in Elems} \cup {[c \in 1..w |-> c % 2]}
Rows == UNION {RowsOfWidth(w) : w \in 0..MaxWidth}
LabelArrays == {LabelsOfLength(n) : n \in 0..MaxWidth}
Indices == 0..MaxRows       \* row indices handed to the accessors
ColIndices == 0..MaxWidth   \* column indices handed to the accessors

\* Column labels handed to the accessors: the labels of LabelArrays and one
\* label that no array holds.
ColumnLabels == {ToString(i) : i \in 1..(MaxWidth + 1)}

\* size_t arguments of the block accessors. An integer s of the model stands
\* for the size_t value s mod 2^64: a negative s is the value 2^64 + s, so
\* -1 is the largest size_t, and sums and differences of such values are
\* the sums and differences modulo 2^64.
\* The (start, count) pairs handed to the block accessors for a dimension
\* explored up to n: no cells, the whole dimension, one cell past the first,
\* a count of 2^64 - 1 from the last index, and a start past the end.
Spans(n) == {<<0, 0>>, <<0, n>>, <<1, 1>>, <<n - 1, -1>>, <<n, 1>>}

----------------------------------------------------------------------------
(* Machine integers. A value of an unsigned type is kept as its 16-bit     *)
(* limbs, most significant first, so that 2^32 - 1 and 2^64 - 1 are exact. *)

Limb == 2^16

\* static_cast<unsigned>(n), for an n with |n| < 2^31
AsUnsigned(n) == <<(n \div Limb) % Limb, n % Limb>>

\* static_cast<size_t>(n) of an int n (sign-extended to 64 bits)
AsSizeT(n) ==
    LET hi == (n \div Limb) \div Limb
    IN  <<(hi \div Limb) % Limb, hi % Limb, (n \div Limb) % Limb, n % Limb>>

\* The unsigned value kept in limbs is the integer n.
Denotes(limbs, n) ==
    /\ n >= 0
    /\ limbs[Len(limbs)] = n % Limb
    /\ limbs[Len(limbs) - 1] = (n \div Limb) % Limb
    /\ \A k \in 1..(Len(limbs) - 2) : limbs[k] = 0

----------------------------------------------------------------------------
(* SimTK::Matrix_<ETY> as DataTable_ uses it.                              *)

EmptyMatrix == [nrow |-> 0, ncol |-> 0, data |-> <<>>]

\* Matrix_::resize(m, n): the old contents are dropped and the new elements
\* are uninitialized, any values of ETY (drawn from RowsOfWidth).
resize(m, n) ==
    {[nrow |-> m, ncol |-> n, data |-> d] : d \in [1..m -> RowsOfWidth(n)]}

\* Matrix_::resizeKeep(m, n) as appendRow calls it (one more row, the same
\* columns): the old rows are kept and the new row is uninitialized.
resizeKeep(mat, m, n) ==
    {[nrow |-> m, ncol |-> n, data |-> Append(mat.data, g)] :
        g \in RowsOfWidth(n)}

\* _depData.updRow(i) = row. Assigning to a row view cannot resize it: with
\* the widths different, the library either raises its own error (a build
\* with its dimension checks) or goes on with the row not assigned (a build
\* without them).
AssignRow(mat, i, row) ==
    IF Len(row) = mat.ncol
    THEN {[err |-> "None", mat |-> [mat EXCEPT !.data[i + 1] = row]]}
    ELSE {[err |-> e, mat |-> mat] : e \in {"SimTKException", "None"}}

\* _depData.row(i) / _depData.updRow(i): a row inside the matrix is that
\* row; a row outside it is an index error of the library (a build with its
\* index checks) or whatever the memory holds (a build without them).
MatrixRow(mat, i) ==
    IF i < mat.nrow
    THEN {[err |-> "None", res |-> mat.data[i + 1]]}
    ELSE {[err |-> "SimTKException", res |-> <<>>]}
         \cup {[err |-> "None", res |-> g] : g \in RowsOfWidth(mat.ncol)}

\* _depData.col(j)
MatrixCol(mat, j) ==
    IF j < mat.ncol
    THEN {[err |-> "None", res |-> [r \in 1..mat.nrow |-> mat.data[r][j + 1]]]}
    ELSE {[err |-> "SimTKException", res |-> <<>>]}
         \cup {[err |-> "None", res |-> g] : g \in [1..mat.nrow -> Elems]}

\* _depData.block(i, j, m, n) / _depData.updBlock(i, j, m, n), the arguments
\* already cast to int: a block inside the matrix is its m x n cells from
\* (i, j); any other block is an error of the library or a view of memory
\* that is not the matrix's (no cells at all when a dimension is negative).
MatrixBlock(mat, i, j, m, n) ==
    IF /\ i >= 0 /\ j >= 0 /\ m >= 0 /\ n >= 0
       /\ i + m <= mat.nrow /\ j + n <= mat.ncol
    THEN {[err |-> "None",
           res |-> [r \in 1..m |-> [c \in 1..n |-> mat.data[i + r][j + c]]]]}
    ELSE {[err |-> "SimTKException", res |-> <<>>]}
         \cup {[err |-> "None", res |-> g] :
                 g \in IF m < 0 \/ n < 0 THEN {<<>>}
                       ELSE [1..m -> RowsOfWidth(n)]}

----------------------------------------------------------------------------
(* Records of calls.                                                       *)

NoMetaData == [k \in {} |-> <<>>]

\* No table to flatten.
NoSource ==
    [shape |-> <<>>, indData |-> <<>>, depData |-> EmptyMatrix,
     dependentsMetaData |-> NoMetaData, stringKeys |-> {},
     independentMetaData |-> NoMetaData, tableMetaData |-> NoMetaData]

NoCall ==
    [op |-> "none", err |-> "None", index |-> -1, ind |-> -1,
     row |-> <<>>, res |-> <<>>, lo |-> -1, hi |-> <<>>,
     expected |-> -1, actual |-> -1, thrown |-> -1, block |-> <<>>,
     label |-> "", prior |-> "none", that |-> NoSource, suffixes |-> <<>>,
     absTables |-> <<>>, tablename |-> ""]

Snapshot ==
    [indData |-> indData, depData |-> depData,
     dependentsMetaData |-> dependentsMetaData,
     independentMetaData |-> independentMetaData,
     tableMetaData |-> tableMetaData]

\* The caller is between two calls: it holds no outcome of a call.
Idle == last = NoCall

HasKey(md, key) == key \in DOMAIN md

----------------------------------------------------------------------------
(* DataTable_ member functions.                                            *)

\* size_t implementGetNumRows()
implementGetNumRows == depData.nrow

\* size_t implementGetNumColumns()
implementGetNumColumns == depData.ncol

\* bool isRowIndexOutOfRange(size_t index): index >= _indData.size(), both
\* unsigned (a negative index of the model is a value just below 2^64).
isRowIndexOutOfRange(index) == index < 0 \/ index >= Len(indData)

\* bool isColumnIndexOutOfRange(size_t index)
isColumnIndexOutOfRange(index) == index < 0 \/ index >= depData.ncol

\* virtual void validateRow(size_t, const ETX&, const RowVector&): the error
\* it raises ("None": it returns). DataTable_ itself accepts every row.
validateRow(rowIndex, ind, row) == "None"

\* The label check with the row measured against the matrix's columns
\* instead of the labels.
checkRowAgainstColumns(depRow) ==
    IF /\ HasKey(dependentsMetaData, "labels")
       /\ Len(depRow) # depData.ncol
    THEN [err |-> "IncorrectNumColumns", expected |-> depData.ncol,
          actual |-> Len(depRow)]
    ELSE [err |-> "None", expected |-> -1, actual |-> -1]

\* appendRow's check of a row for an empty matrix: with "labels" in the
\* dependents metadata the row must be as wide as the labels are many; with
\* no "labels" (KeyNotFound caught) there is nothing to check.
checkRowAgainstLabels(depRow) ==
    IF /\ HasKey(dependentsMetaData, "labels")
       /\ Len(depRow) # Len(dependentsMetaData["labels"])
    THEN [err |-> "IncorrectNumColumns",
          expected |-> Len(dependentsMetaData["labels"]),
          actual |-> Len(depRow)]
    ELSE [err |-> "None", expected |-> -1, actual |-> -1]

\* appendRow growing the matrix with resize where the code uses resizeKeep:
\* the rows appended before are dropped.
appendRowOutcomesResizing(indRow, depRow) ==
    LET v == validateRow(Len(indData), indRow, depRow)
        pushed == Append(indData, indRow)
        c == checkRowAgainstLabels(depRow)
        out(e, ind, mat, ex, ac) ==
            [err |-> e, indData |-> ind, depData |-> mat,
             expected |-> ex, actual |-> ac]
    IN  IF v # "None"
        THEN {out(v, indData, depData, -1, -1)}
        ELSE IF depData.nrow = 0 \/ depData.ncol = 0
        THEN IF c.err # "None"
             THEN {out(c.err, pushed, depData, c.expected, c.actual)}
             ELSE {out(a.err, pushed, a.mat, -1, -1) :
                     a \in UNION {AssignRow(m, m.nrow - 1, depRow) :
                                    m \in resize(1, Len(depRow))}}
        ELSE {out(a.err, pushed, a.mat, -1, -1) :
                a \in UNION {AssignRow(m, m.nrow - 1, depRow) :
                    m \in resize(depData.nrow + 1, depData.ncol)}}

\* The outcomes of appendRow(indRow, depRow): the error raised ("None": the
\* call returns) and the table it leaves.
appendRowOutcomes(indRow, depRow) ==
    LET v == validateRow(Len(indData), indRow, depRow)
        pushed == Append(indData, indRow)
        c == checkRowAgainstLabels(depRow)
        out(e, ind, mat, ex, ac) ==
            [err |-> e, indData |-> ind, depData |-> mat,
             expected |-> ex, actual |-> ac]
    IN  IF v # "None"
        THEN {out(v, indData, depData, -1, -1)}
        ELSE IF depData.nrow = 0 \/ depData.ncol = 0
        THEN IF c.err # "None"
             THEN {out(c.err, pushed, depData, c.expected, c.actual)}
             ELSE {out(a.err, pushed, a.mat, -1, -1) :
                     a \in UNION {AssignRow(m, m.nrow - 1, depRow) :
                                    m \in resize(1, Len(depRow))}}
        ELSE {out(a.err, pushed, a.mat, -1, -1) :
                a \in UNION {AssignRow(m, m.nrow - 1, depRow) :
                    m \in resizeKeep(depData, depData.nrow + 1, depData.ncol)}}

appendRow(indRow, depRow) ==
    /\ Idle
    /\ Len(indData) < MaxRows
    /\ \E o \in appendRowOutcomes(indRow, depRow) :
        /\ indData' = o.indData
        /\ depData' = o.depData
        /\ last' = [NoCall EXCEPT !.op = "appendRow", !.err = o.err,
                                  !.ind = indRow, !.row = depRow,
                                  !.expected = o.expected,
                                  !.actual = o.actual]
    /\ pre' = Snapshot
    /\ UNCHANGED <<dependentsMetaData, independentMetaData, tableMetaData>>

----------------------------------------------------------------------------
(* A specialization with a validateRow hook: the time-series table.        *)

\* validateRow of the time-series table: a row whose independent value is
\* not greater than the last one of the column is rejected with InvalidRow.
validateRowTimeSeries(rowIndex, indRow, depRow) ==
    IF rowIndex > 0 /\ indRow <= indData[rowIndex] THEN "InvalidRow"
    ELSE "None"

\* appendRow with the hook run after the push_back of the independent value.
appendRowHookedOutcomesPushFirst(indRow, depRow) ==
    LET v == validateRowTimeSeries(Len(indData), indRow, depRow)
    IN  IF v # "None"
        THEN {[err |-> v, indData |-> Append(indData, indRow),
               depData |-> depData, expected |-> -1, actual |-> -1]}
        ELSE appendRowOutcomes(indRow, depRow)

\* appendRow of the specialization: validateRow(_indData.size(), indRow,
\* depRow) is the first statement, and an exception of the hook ends the
\* call there; otherwise the call goes on as in DataTable_.
appendRowHookedOutcomes(indRow, depRow) ==
    LET v == validateRowTimeSeries(Len(indData), indRow, depRow)
    IN  IF v # "None"
        THEN {[err |-> v, indData |-> indData, depData |-> depData,
               expected |-> -1, actual |-> -1]}
        ELSE appendRowOutcomes(indRow, depRow)

appendRowHooked(indRow, depRow) ==
    /\ Idle
    /\ Len(indData) < MaxRows
    /\ \E o \in appendRowHookedOutcomes(indRow, depRow) :
        /\ indData' = o.indData
        /\ depData' = o.depData
        /\ last' = [NoCall EXCEPT !.op = "appendRow", !.err = o.err,
                                  !.ind = indRow, !.row = depRow,
                                  !.expected = o.expected,
                                  !.actual = o.actual]
    /\ pre' = Snapshot
    /\ UNCHANGED <<dependentsMetaData, independentMetaData, tableMetaData>>

----------------------------------------------------------------------------
(* Row accessors.                                                          *)

\* find searching from the back: the last index holding ind.
findLast(ind) ==
    IF \E j \in 1..Len(indData) : indData[j] = ind
    THEN (CHOOSE j \in 1..Len(indData) :
            /\ indData[j] = ind
            /\ \A k \in (j + 1)..Len(indData) : indData[k] # ind) - 1
    ELSE Len(indData)

\* std::find(_indData.cbegin(), _indData.cend(), ind), as the distance from
\* cbegin(): the first index holding ind, or _indData.size() for cend().
find(ind) ==
    IF \E j \in 1..Len(indData) : indData[j] = ind
    THEN (CHOOSE j \in 1..Len(indData) :
            /\ indData[j] = ind
            /\ \A k \in 1..(j - 1) : indData[k] # ind) - 1
    ELSE Len(indData)

Thrown(e, index, hi) == [err |-> e, index |-> index, lo |-> 0, hi |-> hi,
                         res |-> <<>>, target |-> -1]
Viewed(o, i) == [err |-> o.err, index |-> -1, lo |-> -1, hi |-> <<>>,
                 res |-> o.res, target |-> i]

\* RowVectorView getRowAtIndex(size_t index) const
getRowAtIndexOutcomes(index) ==
    IF isRowIndexOutOfRange(index)
    THEN {Thrown("RowIndexOutOfRange", index, AsUnsigned(Len(indData) - 1))}
    ELSE {Viewed(o, index) : o \in MatrixRow(depData, index)}

\* RowVectorView getRow(const ETX& ind) const
getRowOutcomes(ind) ==
    IF find(ind) = Len(indData)
    THEN {[Thrown("KeyNotFound", -1, <<>>) EXCEPT !.lo = -1]}
    ELSE {Viewed(o, find(ind)) : o \in MatrixRow(depData, find(ind))}

\* RowVectorView updRowAtIndex(size_t index)
updRowAtIndexOutcomes(index) ==
    IF isRowIndexOutOfRange(index)
    THEN {Thrown("RowIndexOutOfRange", index, AsUnsigned(Len(indData) - 1))}
    ELSE {Viewed(o, index) : o \in MatrixRow(depData, index)}

\* RowVectorView updRow(const ETX& ind)
updRowOutcomes(ind) ==
    IF find(ind) = Len(indData)
    THEN {[Thrown("KeyNotFound", -1, <<>>) EXCEPT !.lo = -1]}
    ELSE {Viewed(o, find(ind)) : o \in MatrixRow(depData, find(ind))}

\* VectorView getDependentColumnAtIndex(size_t index) const
getDependentColumnAtIndexOutcomes(index) ==
    IF isColumnIndexOutOfRange(index)
    THEN {Thrown("ColumnIndexOutOfRange", index, AsSizeT(depData.ncol - 1))}
    ELSE {Viewed(o, index) : o \in MatrixCol(depData, index)}

Read(name, o, index, ind) ==
    /\ Idle
    /\ last' = [NoCall EXCEPT !.op = name, !.err = o.err, !.index = index,
                              !.ind = ind, !.res = o.res, !.lo = o.lo,
                              !.hi = o.hi, !.thrown = o.index]
    /\ pre' = Snapshot
    /\ UNCHANGED <<indData, depData, dependentsMetaData,
                   independentMetaData, tableMetaData>>

getRowAtIndex(index) ==
    \E o \in getRowAtIndexOutcomes(index) : Read("getRowAtIndex", o, index, -1)

getRow(ind) ==
    \E o \in getRowOutcomes(ind) : Read("getRow", o, -1, ind)

getDependentColumnAtIndex(index) ==
    \E o \in getDependentColumnAtIndexOutcomes(index) :
        Read("getDependentColumnAtIndex", o, index, -1)

\* A write of newRow through the view a upd call returned. A view of a row
\* inside the matrix writes that row; a view the library refused, or one of
\* memory outside the matrix, leaves the matrix as it is.
WriteRow(name, o, index, ind, newRow) ==
    /\ Idle
    /\ depData' = IF o.err = "None" /\ o.target < depData.nrow
                  THEN [depData EXCEPT !.data[o.target + 1] = newRow]
                  ELSE depData
    /\ last' = [NoCall EXCEPT !.op = name, !.err = o.err, !.index = index,
                              !.ind = ind, !.row = newRow, !.lo = o.lo,
                              !.hi = o.hi, !.thrown = o.index]
    /\ pre' = Snapshot
    /\ UNCHANGED <<indData, dependentsMetaData, independentMetaData,
                   tableMetaData>>

updRowAtIndex(index, newRow) ==
    \E o \in updRowAtIndexOutcomes(index) :
        WriteRow("updRowAtIndex", o, index, -1, newRow)

updRow(ind, newRow) ==
    \E o \in updRowOutcomes(ind) : WriteRow("updRow", o, -1, ind, newRow)

\* void setIndependentValueAtIndex(size_t rowIndex, const ETX& value)
setIndependentValueAtIndexOutcomes(rowIndex, value) ==
    IF isRowIndexOutOfRange(rowIndex)
    THEN {[err |-> "RowIndexOutOfRange", indData |-> indData, lo |-> 0,
           hi |-> AsUnsigned(Len(indData) - 1)]}
    ELSE {[err |-> IF o.err # "None" THEN o.err
                   ELSE validateRow(rowIndex, value, o.res),
           indData |-> IF o.err = "None"
                          /\ validateRow(rowIndex, value, o.res) = "None"
                       THEN [indData EXCEPT ![rowIndex + 1] = value]
                       ELSE indData,
           lo |-> -1, hi |-> <<>>] : o \in MatrixRow(depData, rowIndex)}

setIndependentValueAtIndex(rowIndex, value) ==
    /\ Idle
    /\ \E o \in setIndependentValueAtIndexOutcomes(rowIndex, value) :
        /\ indData' = o.indData
        /\ last' = [NoCall EXCEPT !.op = "setIndependentValueAtIndex",
                                  !.err = o.err, !.index = rowIndex,
                                  !.ind = value, !.lo = o.lo, !.hi = o.hi]
    /\ pre' = Snapshot
    /\ UNCHANGED <<depData, dependentsMetaData, independentMetaData,
                   tableMetaData>>

----------------------------------------------------------------------------
(* Column accessors.                                                       *)

\* AbstractDataTable::getColumnIndex(columnLabel): the index of the first
\* entry of the "labels" array equal to columnLabel; -1 stands for the
\* KeyNotFound it raises with no such entry, or with no "labels" array.
getColumnIndex(columnLabel) ==
    IF /\ HasKey(dependentsMetaData, "labels")
       /\ \E k \in 1..Len(dependentsMetaData["labels"]) :
             dependentsMetaData["labels"][k] = columnLabel
    THEN (CHOOSE k \in 1..Len(dependentsMetaData["labels"]) :
            /\ dependentsMetaData["labels"][k] = columnLabel
            /\ \A m \in 1..(k - 1) :
                  dependentsMetaData["labels"][m] # columnLabel) - 1
    ELSE -1

\* VectorView getDependentColumn(const std::string& columnLabel) const
getDependentColumnOutcomes(columnLabel) ==
    IF getColumnIndex(columnLabel) = -1
    THEN {[Thrown("KeyNotFound", -1, <<>>) EXCEPT !.lo = -1]}
    ELSE {Viewed(o, getColumnIndex(columnLabel)) :
            o \in MatrixCol(depData, getColumnIndex(columnLabel))}

\* VectorView updDependentColumnAtIndex(size_t index)
updDependentColumnAtIndexOutcomes(index) ==
    IF isColumnIndexOutOfRange(index)
    THEN {Thrown("ColumnIndexOutOfRange", index, AsSizeT(depData.ncol - 1))}
    ELSE {Viewed(o, index) : o \in MatrixCol(depData, index)}

\* VectorView updDependentColumn(const std::string& columnLabel)
updDependentColumnOutcomes(columnLabel) ==
    IF getColumnIndex(columnLabel) = -1
    THEN {[Thrown("KeyNotFound", -1, <<>>) EXCEPT !.lo = -1]}
    ELSE {Viewed(o, getColumnIndex(columnLabel)) :
            o \in MatrixCol(depData, getColumnIndex(columnLabel))}

getDependentColumn(columnLabel) ==
    /\ Idle
    /\ \E o \in getDependentColumnOutcomes(columnLabel) :
        last' = [NoCall EXCEPT !.op = "getDependentColumn", !.err = o.err,
                               !.label = columnLabel, !.res = o.res]
    /\ pre' = Snapshot
    /\ UNCHANGED <<indData, depData, dependentsMetaData,
                   independentMetaData, tableMetaData>>

\* A write of value to every element of the column view a upd call
\* returned. A view of a column inside the matrix writes that column; a view
\* the library refused, or one of memory outside the matrix, leaves the
\* matrix as it is.
WriteColumn(name, o, index, columnLabel, value) ==
    /\ Idle
    /\ depData' = IF o.err = "None" /\ o.target < depData.ncol
                  THEN [depData EXCEPT !.data =
                          [r \in 1..depData.nrow |->
                             [depData.data[r] EXCEPT ![o.target + 1] = value]]]
                  ELSE depData
    /\ last' = [NoCall EXCEPT !.op = name, !.err = o.err, !.index = index,
                              !.label = columnLabel, !.ind = value,
                              !.lo = o.lo, !.hi = o.hi, !.thrown = o.index]
    /\ pre' = Snapshot
    /\ UNCHANGED <<indData, dependentsMetaData, independentMetaData,
                   tableMetaData>>

updDependentColumnAtIndex(index, value) ==
    \E o \in updDependentColumnAtIndexOutcomes(index) :
        WriteColumn("updDependentColumnAtIndex", o, index, "", value)

updDependentColumn(columnLabel, value) ==
    \E o \in updDependentColumnOutcomes(columnLabel) :
        WriteColumn("updDependentColumn", o, -1, columnLabel, value)

----------------------------------------------------------------------------
(* Matrix block accessors.                                                 *)

BlockThrown(e, index, hi) == [err |-> e, index |-> index, lo |-> 0, hi |-> hi,
                              res |-> <<>>, inside |-> FALSE]
BlockViewed(o, inside) == [err |-> o.err, index |-> -1, lo |-> -1, hi |-> <<>>,
                           res |-> o.res, inside |-> inside]

\* The block of the arguments lies inside the matrix.
BlockInside(mat, rowStart, columnStart, numRows, numColumns) ==
    /\ rowStart >= 0 /\ columnStart >= 0 /\ numRows >= 0 /\ numColumns >= 0
    /\ rowStart + numRows <= mat.nrow
    /\ columnStart + numColumns <= mat.ncol

\* MatrixView getMatrixBlock(size_t rowStart, size_t columnStart,
\*                           size_t numRows, size_t numColumns) const
getMatrixBlockOutcomes(rowStart, columnStart, numRows, numColumns) ==
    IF numRows = 0 \/ numColumns = 0
    THEN {[BlockThrown("InvalidArgument", -1, <<>>) EXCEPT !.lo = -1]}
    ELSE IF isRowIndexOutOfRange(rowStart)
    THEN {BlockThrown("RowIndexOutOfRange", rowStart,
                      AsUnsigned(depData.nrow - 1))}
    ELSE IF isRowIndexOutOfRange(rowStart + numRows - 1)
    THEN {BlockThrown("RowIndexOutOfRange", rowStart + numRows - 1,
                      AsUnsigned(depData.nrow - 1))}
    ELSE IF isColumnIndexOutOfRange(columnStart)
    THEN {BlockThrown("ColumnIndexOutOfRange", columnStart,
                      AsUnsigned(depData.ncol - 1))}
    ELSE IF isColumnIndexOutOfRange(columnStart + numColumns - 1)
    THEN {BlockThrown("ColumnIndexOutOfRange", columnStart + numColumns - 1,
                      AsUnsigned(depData.ncol - 1))}
    ELSE {BlockViewed(o, BlockInside(depData, rowStart, columnStart,
                                     numRows, numColumns)) :
            o \in MatrixBlock(depData, rowStart, columnStart,
                              numRows, numColumns)}

\* MatrixView updMatrixBlock(size_t rowStart, size_t columnStart,
\*                           size_t numRows, size_t numColumns)
updMatrixBlockOutcomes(rowStart, columnStart, numRows, numColumns) ==
    IF numRows = 0 \/ numColumns = 0
    THEN {[BlockThrown("InvalidArgument", -1, <<>>) EXCEPT !.lo = -1]}
    ELSE IF isRowIndexOutOfRange(rowStart)
    THEN {BlockThrown("RowIndexOutOfRange", rowStart,
                      AsUnsigned(depData.nrow - 1))}
    ELSE IF isRowIndexOutOfRange(rowStart + numRows - 1)
    THEN {BlockThrown("RowIndexOutOfRange", rowStart + numRows - 1,
                      AsUnsigned(depData.nrow - 1))}
    ELSE IF isColumnIndexOutOfRange(columnStart)
    THEN {BlockThrown("ColumnIndexOutOfRange", columnStart,
                      AsUnsigned(depData.ncol - 1))}
    ELSE IF isColumnIndexOutOfRange(columnStart + numColumns - 1)
    THEN {BlockThrown("ColumnIndexOutOfRange", columnStart + numColumns - 1,
                      AsUnsigned(depData.ncol - 1))}
    ELSE {BlockViewed(o, BlockInside(depData, rowStart, columnStart,
                                     numRows, numColumns)) :
            o \in MatrixBlock(depData, rowStart, columnStart,
                              numRows, numColumns)}

BlockCall(name, o, rowStart, columnStart, numRows, numColumns) ==
    [NoCall EXCEPT !.op = name, !.err = o.err, !.res = o.res, !.lo = o.lo,
                   !.hi = o.hi, !.thrown = o.index,
                   !.block = <<rowStart, columnStart, numRows, numColumns>>]

getMatrixBlock(rowStart, columnStart, numRows, numColumns) ==
    /\ Idle
    /\ \E o \in getMatrixBlockOutcomes(rowStart, columnStart,
                                        numRows, numColumns) :
        last' = BlockCall("getMatrixBlock", o, rowStart, columnStart,
                          numRows, numColumns)
    /\ pre' = Snapshot
    /\ UNCHANGED <<indData, depData, dependentsMetaData,
                   independentMetaData, tableMetaData>>

\* MatrixView& updMatrix(), and a write of value to every cell of the view
\* (the test adds 2 to every cell): _depData.updAsMatrixView() is the whole
\* matrix.
updMatrix(value) ==
    /\ Idle
    /\ depData' = [depData EXCEPT !.data =
                     [r \in 1..depData.nrow |->
                        [c \in 1..depData.ncol |-> value]]]
    /\ last' = [NoCall EXCEPT !.op = "updMatrix", !.ind = value]
    /\ pre' = Snapshot
    /\ UNCHANGED <<indData, dependentsMetaData, independentMetaData,
                   tableMetaData>>

\* The matrix with value written to every cell of the block.
FillBlock(mat, rowStart, columnStart, numRows, numColumns, value) ==
    [mat EXCEPT !.data =
        [r \in 1..mat.nrow |-> [c \in 1..mat.ncol |->
            IF /\ rowStart < r /\ r <= rowStart + numRows
               /\ columnStart < c /\ c <= columnStart + numColumns
            THEN value ELSE mat.data[r][c]]]]

\* updMatrixBlock(...) = value: a view of cells of the matrix writes them; a
\* view the library refused, or one of memory outside the matrix, leaves the
\* matrix as it is.
updMatrixBlock(rowStart, columnStart, numRows, numColumns, value) ==
    /\ Idle
    /\ \E o \in updMatrixBlockOutcomes(rowStart, columnStart,
                                        numRows, numColumns) :
        /\ depData' = IF o.err = "None" /\ o.inside
                      THEN FillBlock(depData, rowStart, columnStart,
                                     numRows, numColumns, value)
                      ELSE depData
        /\ last' = [BlockCall("updMatrixBlock", o, rowStart, columnStart,
                              numRows, numColumns) EXCEPT !.ind = value]
    /\ pre' = Snapshot
    /\ UNCHANGED <<indData, dependentsMetaData, independentMetaData,
                   tableMetaData>>

\* appendRow on the table the block accessors are explored on, which has
\* one row more than MaxRows: with two rows no start index is large enough
\* for the last index of a block to wrap around to a valid one.
MaxBlockRows == MaxRows + 1
appendRowOfBlockTable(indRow, depRow) ==
    /\ Idle
    /\ Len(indData) < MaxBlockRows
    /\ \E o \in appendRowOutcomes(indRow, depRow) :
        /\ indData' = o.indData
        /\ depData' = o.depData
        /\ last' = [NoCall EXCEPT !.op = "appendRow", !.err = o.err,
                                  !.ind = indRow, !.row = depRow,
                                  !.expected = o.expected,
                                  !.actual = o.actual]
    /\ pre' = Snapshot
    /\ UNCHANGED <<dependentsMetaData, independentMetaData, tableMetaData>>

----------------------------------------------------------------------------
(* Metadata.                                                               *)

\* validateDependentsMetaData with the loop over the keys left out.
validateDependentsMetaDataLabelsOnly(md, mat) ==
    IF ~HasKey(md, "labels") THEN "MissingMetaData"
    ELSE LET numCols == Len(md["labels"])
         IN  IF numCols = 0 THEN "MetaDataLengthZero"
             ELSE IF mat.ncol # 0 /\ numCols # mat.ncol
             THEN "IncorrectMetaDataLength"
             ELSE "None"

\* validateDependentsMetaData with the check for an empty "labels" array
\* left out.
validateDependentsMetaDataNoZeroCheck(md, mat) ==
    IF ~HasKey(md, "labels") THEN "MissingMetaData"
    ELSE LET numCols == Len(md["labels"])
         IN  IF mat.ncol # 0 /\ numCols # mat.ncol
             THEN "IncorrectMetaDataLength"
             ELSE IF \E key \in DOMAIN md : numCols # Len(md[key])
             THEN "IncorrectMetaDataLength"
             ELSE "None"

\* void validateDependentsMetaData() const, on the store md and the matrix
\* mat: the error it raises ("None": it returns).
validateDependentsMetaData(md, mat) ==
    IF ~HasKey(md, "labels") THEN "MissingMetaData"
    ELSE LET numCols == Len(md["labels"])
         IN  IF numCols = 0 THEN "MetaDataLengthZero"
             ELSE IF mat.ncol # 0 /\ numCols # mat.ncol
             THEN "IncorrectMetaDataLength"
             ELSE IF \E key \in DOMAIN md : numCols # Len(md[key])
             THEN "IncorrectMetaDataLength"
             ELSE "None"

\* validateIndependentMetaData satisfied by an entry under any key.
validateIndependentMetaDataAnyKey(md) ==
    IF DOMAIN md # {} THEN "None" ELSE "MissingMetaData"

\* void validateIndependentMetaData() const
validateIndependentMetaData(md) ==
    IF HasKey(md, "labels") THEN "None" ELSE "MissingMetaData"

DependentsMetaDatas ==
    {NoMetaData} \cup {[k \in {"labels"} |-> a] : a \in LabelArrays}

\* The "column-index" array of testDataTable.cpp: the n values 1 .. n.
ColumnIndexOfLength(n) == [i \in 1..n |-> i]

\* Dependents metadata with and without "labels" and "column-index", the
\* two arrays of any lengths up to MaxWidth.
DependentsMetaDatasWithKeys ==
    DependentsMetaDatas
    \cup {[k \in {"column-index"} |-> ColumnIndexOfLength(n)] :
            n \in 0..MaxWidth}
    \cup {[k \in {"labels", "column-index"} |->
             IF k = "labels" THEN LabelsOfLength(n)
             ELSE ColumnIndexOfLength(m)] : n, m \in 0..MaxWidth}

IndependentMetaDatas ==
    {NoMetaData, [k \in {"labels"} |-> "0"],
     [k \in {"column-index"} |-> 0],
     [k \in {"labels", "column-index"} |-> IF k = "labels" THEN "0" ELSE 0]}
TableMetaDatas == {NoMetaData, [k \in {"DataRate"} |-> 600]}

\* AbstractDataTable::setColumnLabels: the "labels" array is replaced and
\* the dependents metadata is then validated.
setColumnLabels(labels) ==
    /\ Idle
    /\ dependentsMetaData' =
         [k \in DOMAIN dependentsMetaData \cup {"labels"} |->
            IF k = "labels" THEN labels ELSE dependentsMetaData[k]]
    /\ last' = [NoCall EXCEPT !.op = "setColumnLabels",
                  !.err = validateDependentsMetaData(dependentsMetaData',
                                                     depData)]
    /\ pre' = Snapshot
    /\ UNCHANGED <<indData, depData, independentMetaData, tableMetaData>>

\* AbstractDataTable::setDependentsMetaData: the store is replaced wholesale
\* and then validated.
setDependentsMetaData(md) ==
    /\ Idle
    /\ dependentsMetaData' = md
    /\ last' = [NoCall EXCEPT !.op = "setDependentsMetaData",
                  !.err = validateDependentsMetaData(md, depData)]
    /\ pre' = Snapshot
    /\ UNCHANGED <<indData, depData, independentMetaData, tableMetaData>>

\* AbstractDataTable::setIndependentMetaData
setIndependentMetaData(md) ==
    /\ Idle
    /\ independentMetaData' = md
    /\ last' = [NoCall EXCEPT !.op = "setIndependentMetaData",
                  !.err = validateIndependentMetaData(md)]
    /\ pre' = Snapshot
    /\ UNCHANGED <<indData, depData, dependentsMetaData, tableMetaData>>

\* AbstractDataTable::updTableMetaData().setValueForKey(...)
updTableMetaData(md) ==
    /\ Idle
    /\ tableMetaData' = md
    /\ last' = [NoCall EXCEPT !.op = "updTableMetaData"]
    /\ pre' = Snapshot
    /\ UNCHANGED <<indData, depData, dependentsMetaData, independentMetaData>>

\* A call of validateDependentsMetaData() that drops the arrays it finds
\* wrong instead of leaving the store alone.
validateDependentsMetaDataRepairing ==
    /\ \/ Idle
       \/ last.op = "validateDependentsMetaData" /\ last.prior = "none"
    /\ last' = [NoCall EXCEPT
                  !.op = "validateDependentsMetaData",
                  !.err = validateDependentsMetaData(dependentsMetaData,
                                                     depData),
                  !.prior = IF Idle THEN "none" ELSE last.err]
    /\ dependentsMetaData' =
         IF validateDependentsMetaData(dependentsMetaData, depData)
              = "IncorrectMetaDataLength"
         THEN [k \in {"labels"} |-> dependentsMetaData["labels"]]
         ELSE dependentsMetaData
    /\ pre' = Snapshot
    /\ UNCHANGED <<indData, depData, independentMetaData, tableMetaData>>

\* A call of validateDependentsMetaData() const, by the caller itself or
\* directly after another call of it.
validateDependentsMetaDataCall ==
    /\ \/ Idle
       \/ last.op = "validateDependentsMetaData" /\ last.prior = "none"
    /\ last' = [NoCall EXCEPT
                  !.op = "validateDependentsMetaData",
                  !.err = validateDependentsMetaData(dependentsMetaData,
                                                     depData),
                  !.prior = IF Idle THEN "none" ELSE last.err]
    /\ pre' = Snapshot
    /\ UNCHANGED <<indData, depData, dependentsMetaData,
                   independentMetaData, tableMetaData>>

\* A call of validateIndependentMetaData() const
validateIndependentMetaDataCall ==
    /\ Idle
    /\ last' = [NoCall EXCEPT
                  !.op = "validateIndependentMetaData",
                  !.err = validateIndependentMetaData(independentMetaData)]
    /\ pre' = Snapshot
    /\ UNCHANGED <<indData, depData, dependentsMetaData,
                   independentMetaData, tableMetaData>>

----------------------------------------------------------------------------
(* Flattening: DataTable_<double, double> from DataTable_<double, ThatETY>. *)
(* A table "that" is a record of its element shape (<<m>>: SimTK::Vec<m>,  *)
(* <<m, n>>: SimTK::Vec<m, SimTK::Vec<n>>), its independent column, its    *)
(* matrix of elements, its three metadata stores and the keys of its       *)
(* dependents metadata whose arrays hold strings.                          *)

\* unsigned numComponentsPerElement_impl(double),
\* numComponentsPerElement_impl(SimTK::Vec<M>) and
\* numComponentsPerElement_impl(SimTK::Vec<M, SimTK::Vec<N>>)
numComponentsPerElement_impl(shape) ==
    IF shape = <<>> THEN 1
    ELSE IF Len(shape) = 1 THEN shape[1] ELSE shape[1] * shape[2]

\* unsigned numComponentsPerElement() const
numComponentsPerElement(that) == numComponentsPerElement_impl(that.shape)

\* AbstractDataTable::hasColumnLabels
hasColumnLabels(that) == HasKey(that.dependentsMetaData, "labels")

\* The checks of the flattening constructor with the suffix list required to
\* have one suffix per component even when it is empty.
checkFlattenArgumentsEmptyNotExempt(that, suffixes) ==
    IF ~hasColumnLabels(that) THEN "InvalidArgument"
    ELSE IF that.depData.nrow = 0 \/ that.depData.ncol = 0
    THEN "InvalidArgument"
    ELSE IF Len(suffixes) # numComponentsPerElement(that)
    THEN "InvalidArgument"
    ELSE "None"

\* The three OPENSIM_THROW_IF of the flattening constructor.
checkFlattenArguments(that, suffixes) ==
    IF ~hasColumnLabels(that) THEN "InvalidArgument"
    ELSE IF that.depData.nrow = 0 \/ that.depData.ncol = 0
    THEN "InvalidArgument"
    ELSE IF suffixes # <<>> /\ Len(suffixes) # numComponentsPerElement(that)
    THEN "InvalidArgument"
    ELSE "None"

\* for(const auto& value : values) for(i < n) newValues.push_back(value)
RECURSIVE replicateValues(_, _, _, _)
replicateValues(newValues, values, n, v) ==
    IF v > Len(values) THEN newValues
    ELSE replicateValues(newValues \o [i \in 1..n |-> values[v]],
                         values, n, v + 1)

\* The replication with the whole array repeated, not each of its values.
replicateDependentsMetaDataTiled(that) ==
    LET n == numComponentsPerElement(that)
        md == that.dependentsMetaData
        C(key) == Len(md[key])
        replicated == [key \in DOMAIN md |->
                         IF key = "labels" \/ key \notin that.stringKeys
                         THEN md[key]
                         ELSE [i \in 1..(C(key) * n) |->
                                 md[key][((i - 1) % C(key)) + 1]]]
    IN  IF DOMAIN md \subseteq that.stringKeys \cup {"labels"}
        THEN {[err |-> "None", md |-> replicated]}
        ELSE {[err |-> "NullPointerDereference", md |-> md],
              [err |-> "None", md |-> replicated]}

\* The loop over the keys of the copied dependents metadata: "labels" is
\* skipped and an array of strings is replicated. For an array of another
\* type the dynamic_cast of the pointer yields a null pointer, which is then
\* dereferenced: the construction crashes, or goes on with the array as it
\* was.
replicateDependentsMetaData(that) ==
    LET n == numComponentsPerElement(that)
        md == that.dependentsMetaData
        replicated == [key \in DOMAIN md |->
                         IF key = "labels" \/ key \notin that.stringKeys
                         THEN md[key]
                         ELSE replicateValues(<<>>, md[key], n, 1)]
    IN  IF DOMAIN md \subseteq that.stringKeys \cup {"labels"}
        THEN {[err |-> "None", md |-> replicated]}
        ELSE {[err |-> "NullPointerDereference", md |-> md],
              [err |-> "None", md |-> replicated]}

\* The labels of one column of that: label + "_" + std::to_string(i) for
\* i = 1 .. n with no suffixes, label + suffix for each suffix otherwise.
suffixedLabels(label, suffixes, n) ==
    IF suffixes = <<>>
    THEN [i \in 1..n |-> label \o "_" \o ToString(i)]
    ELSE [k \in 1..Len(suffixes) |-> label \o suffixes[k]]

RECURSIVE expandLabels(_, _, _, _, _)
expandLabels(thisLabels, thatLabels, suffixes, n, c) ==
    IF c > Len(thatLabels) THEN thisLabels
    ELSE expandLabels(thisLabels \o suffixedLabels(thatLabels[c], suffixes, n),
                      thatLabels, suffixes, n, c + 1)

\* The label expansion with the suffixes in the outer loop.
labelsOfFlattenedSuffixMajor(thatLabels, suffixes, n) ==
    LET s == IF suffixes = <<>> THEN [i \in 1..n |-> "_" \o ToString(i)]
             ELSE suffixes
        C == Len(thatLabels)
    IN  [idx \in 1..(C * Len(s)) |->
            thatLabels[((idx - 1) % C) + 1] \o s[((idx - 1) \div C) + 1]]

\* thisLabels of the flattening constructor
labelsOfFlattened(thatLabels, suffixes, n) ==
    expandLabels(<<>>, thatLabels, suffixes, n, 1)

\* for(i < N) row.push_back(elem[i])
RECURSIVE pushBackComponents(_, _, _)
pushBackComponents(row, vec, i) ==
    IF i > Len(vec) THEN row
    ELSE pushBackComponents(Append(row, vec[i]), vec, i + 1)

\* for(i < M) for(j < N) row.push_back(elem[i][j])
RECURSIVE pushBackVectors(_, _, _)
pushBackVectors(row, elem, i) ==
    IF i > Len(elem) THEN row
    ELSE pushBackVectors(pushBackComponents(row, elem[i], 1), elem, i + 1)

\* static void splitElementAndPushBack(std::vector<double>& row, elem), for
\* SimTK::Vec<N> and for SimTK::Vec<M, SimTK::Vec<N>>
splitElementAndPushBack(row, elem, shape) ==
    IF Len(shape) = 1 THEN pushBackComponents(row, elem, 1)
    ELSE pushBackVectors(row, elem, 1)

\* for(c < that.getNumColumns()) splitElementAndPushBack(row, thatRow[c])
RECURSIVE splitRow(_, _, _, _)
splitRow(row, thatRow, shape, c) ==
    IF c > Len(thatRow) THEN row
    ELSE splitRow(splitElementAndPushBack(row, thatRow[c], shape),
                  thatRow, shape, c + 1)

\* appendRow(indRow, depRow) on the table t under construction (its
\* independent column, matrix and dependents metadata).
appendRowTo(t, indRow, depRow) ==
    LET v == validateRow(Len(t.indData), indRow, depRow)
        pushed == Append(t.indData, indRow)
        labelled == HasKey(t.dependentsMetaData, "labels")
        out(e, ind, mat) == [err |-> e, indData |-> ind, depData |-> mat]
    IN  IF v # "None"
        THEN {out(v, t.indData, t.depData)}
        ELSE IF t.depData.nrow = 0 \/ t.depData.ncol = 0
        THEN IF /\ labelled
                /\ Len(depRow) # Len(t.dependentsMetaData["labels"])
             THEN {out("IncorrectNumColumns", pushed, t.depData)}
             ELSE {out(a.err, pushed, a.mat) :
                     a \in UNION {AssignRow(m, m.nrow - 1, depRow) :
                                    m \in resize(1, Len(depRow))}}
        ELSE {out(a.err, pushed, a.mat) :
                a \in UNION {AssignRow(m, m.nrow - 1, depRow) :
                    m \in resizeKeep(t.depData, t.depData.nrow + 1,
                                     t.depData.ncol)}}

\* for(r < that.getNumRows()) appendRow(thatInd, row), from row r on: the
\* tables the loop can end with, or the error that ends it.
RECURSIVE appendRowsOf(_, _, _)
appendRowsOf(t, that, r) ==
    IF r >= that.depData.nrow
    THEN {[err |-> "None", table |-> t]}
    ELSE UNION {
           IF o.err # "None"
           THEN {[err |-> o.err, table |-> t]}
           ELSE appendRowsOf([t EXCEPT !.indData = o.indData,
                                       !.depData = o.depData], that, r + 1) :
           o \in appendRowTo(t, that.indData[r + 1],
                             splitRow(<<>>, that.depData.data[r + 1],
                                      that.shape, 1))}

\* DataTable_(const DataTable_<double, ThatETY>& that, suffixes): the error
\* it raises ("None": the table is constructed) and the table.
flattenOutcomes(that, suffixes) ==
    LET copied == [indData |-> <<>>, depData |-> EmptyMatrix,
                   dependentsMetaData |-> that.dependentsMetaData,
                   independentMetaData |-> that.independentMetaData,
                   tableMetaData |-> that.tableMetaData]
        c == checkFlattenArguments(that, suffixes)
        labelled(md) ==
            [key \in DOMAIN md |->
                IF key = "labels"
                THEN labelsOfFlattened(that.dependentsMetaData["labels"],
                                       suffixes, numComponentsPerElement(that))
                ELSE md[key]]
    IN  IF c # "None"
        THEN {[err |-> c, table |-> copied]}
        ELSE UNION {
               IF m.err # "None"
               THEN {[err |-> m.err, table |-> copied]}
               ELSE IF validateDependentsMetaData(labelled(m.md), EmptyMatrix)
                         # "None"
               THEN {[err |-> validateDependentsMetaData(labelled(m.md),
                                                         EmptyMatrix),
                      table |-> copied]}
               ELSE appendRowsOf(
                      [copied EXCEPT !.dependentsMetaData = labelled(m.md)],
                      that, 0) :
               m \in replicateDependentsMetaData(that)}

\* The table is as the default constructor leaves it.
Fresh ==
    /\ indData = <<>>
    /\ depData = EmptyMatrix
    /\ dependentsMetaData = NoMetaData
    /\ independentMetaData = NoMetaData
    /\ tableMetaData = NoMetaData

\* that.flatten(suffixes), DataTable_<double, double>{that, suffixes}: the
\* table of the model becomes the table constructed; with an error no table
\* is constructed.
flatten(that, suffixes) ==
    /\ Idle
    /\ Fresh
    /\ \E o \in flattenOutcomes(that, suffixes) :
        /\ last' = [NoCall EXCEPT !.op = "flatten", !.err = o.err,
                                  !.that = that, !.suffixes = suffixes]
        /\ indData' = IF o.err = "None" THEN o.table.indData ELSE indData
        /\ depData' = IF o.err = "None" THEN o.table.depData ELSE depData
        /\ dependentsMetaData' =
             IF o.err = "None" THEN o.table.dependentsMetaData
             ELSE dependentsMetaData
        /\ independentMetaData' =
             IF o.err = "None" THEN o.table.independentMetaData
             ELSE independentMetaData
        /\ tableMetaData' =
             IF o.err = "None" THEN o.table.tableMetaData ELSE tableMetaData
    /\ pre' = Snapshot

\* that.flatten() of a DataTable_<double, double>: in
\* DataTable_<double, double>{*this} the argument has the type of the table
\* constructed, so the copy constructor is chosen over the constructor
\* template: the table constructed is a copy of that (its columns, its
\* metadata), and none of the checks of the template is made.
flattenScalar(that) ==
    /\ Idle
    /\ Fresh
    /\ last' = [NoCall EXCEPT !.op = "flattenScalar", !.that = that]
    /\ indData' = that.indData
    /\ depData' = that.depData
    /\ dependentsMetaData' = that.dependentsMetaData
    /\ independentMetaData' = that.independentMetaData
    /\ tableMetaData' = that.tableMetaData
    /\ pre' = Snapshot

\* The element shapes explored.
Shapes ==
    {<<m>> : m \in 1..MaxComponents}
    \cup {<<m, n>> : m, n \in 1..MaxComponents}

\* An element of the shape whose components are all different: component
\* k (counted from 0, the outer index major) is b + 2 k. The element of
\* the shape <<>> is the double b.
Element(shape, b) ==
    IF shape = <<>> THEN b
    ELSE IF Len(shape) = 1
    THEN [i \in 1..shape[1] |-> b + 2 * (i - 1)]
    ELSE [i \in 1..shape[1] |->
            [j \in 1..shape[2] |-> b + 2 * ((i - 1) * shape[2] + (j - 1))]]

\* Rows of w elements: every element the same, and the elements alternating.
SourceRows(shape, w) ==
    {[c \in 1..w |-> Element(shape, e)] : e \in Elems}
    \cup {[c \in 1..w |-> Element(shape, c % 2)]}

\* The dependents metadata of a table of w columns built as testDataTable.cpp
\* builds its tables: none, the labels, the labels and an array of strings,
\* the labels and an array of integers, and the labels with both arrays.
SourceMetaDatas(w) ==
    LET units == [i \in 1..w |-> "u" \o ToString(i)]
        index == [i \in 1..w |-> i]
    IN  {[md |-> NoMetaData, stringKeys |-> {}],
         [md |-> [k \in {"labels"} |-> LabelsOfLength(w)], stringKeys |-> {}],
         [md |-> [k \in {"labels", "units"} |->
                    IF k = "labels" THEN LabelsOfLength(w) ELSE units],
          stringKeys |-> {"units"}],
         [md |-> [k \in {"labels", "column-index"} |->
                    IF k = "labels" THEN LabelsOfLength(w) ELSE index],
          stringKeys |-> {}],
         [md |-> [k \in {"labels", "units", "column-index"} |->
                    IF k = "labels" THEN LabelsOfLength(w)
                    ELSE IF k = "units" THEN units ELSE index],
          stringKeys |-> {"units"}]}

\* failed is the number of appends that failed with IncorrectNumColumns
\* before the rows were appended: each left its independent value in the
\* column (appendRow pushes it before it compares the row with the labels).
SourceTable(shape, data, w, m, failed) ==
    [shape |-> shape,
     indData |-> [r \in 1..(Len(data) + failed) |-> r - 1],
     depData |-> [nrow |-> Len(data), ncol |-> IF Len(data) = 0 THEN 0 ELSE w,
                  data |-> data],
     dependentsMetaData |-> m.md, stringKeys |-> m.stringKeys,
     independentMetaData |-> [k \in {"labels"} |-> "0"],
     tableMetaData |-> [k \in {"DataRate"} |-> 600]]

\* The tables handed to the flattening: tables with no rows yet, with and
\* without labels; tables of unlabelled rows of any width; and tables whose
\* labels were set before rows of as many elements were appended, with or
\* without a failed append of a row of another width before them.
\* The tables of the shape with R rows of w elements each.
SourcesOfSize(shape, R, w) ==
    {SourceTable(shape, data, w, m, 0) :
        data \in [1..R -> SourceRows(shape, w)],
        m \in IF w = 0 THEN {[md |-> NoMetaData, stringKeys |-> {}]}
              ELSE SourceMetaDatas(w)}
    \cup {SourceTable(shape, data, w, m, 1) :
            data \in [1..R -> SourceRows(shape, w)],
            m \in IF w = 0 THEN {}
                  ELSE {x \in SourceMetaDatas(w) : HasKey(x.md, "labels")}}

Sources(shape) ==
    UNION {SourcesOfSize(shape, R, w) : R \in 0..MaxRows, w \in 0..MaxWidth}

\* The suffix lists handed to the flattening: none, and "_s1" .. "_sn".
SuffixLists ==
    {[k \in 1..n |-> "_s" \o ToString(k)] :
        n \in 0..(MaxComponents * MaxComponents)}

\* The keys of the mapping FileAdapter::readFile returns, in the order of
\* the map: "forces" before "markers".
TableNames == <<"forces", "markers">>

\* absTables.cbegin(): the entry of the first key of the map.
cbegin(absTables) ==
    TableNames[CHOOSE i \in 1..Len(TableNames) :
                  /\ TableNames[i] \in DOMAIN absTables
                  /\ \A j \in 1..(i - 1) : TableNames[j] \notin DOMAIN absTables]

\* The construction that takes the first table of several when no name is
\* given.
constructFromFileOutcomesFirstOfMany(absTables, tablename, type) ==
    LET selected(name) ==
            IF absTables[name].type # type
            THEN {[err |-> "InvalidArgument", name |-> name]}
            ELSE {[err |-> "None", name |-> name]}
    IN  IF tablename = ""
        THEN IF DOMAIN absTables = {}
             THEN {[err |-> "EndIteratorDereference", name |-> ""],
                   [err |-> "InvalidArgument", name |-> ""]}
             ELSE selected(cbegin(absTables))
        ELSE IF tablename \notin DOMAIN absTables
        THEN {[err |-> "InvalidArgument", name |-> tablename]}
        ELSE selected(tablename)

\* DataTable_(filename, tablename) with absTables the mapping that
\* FileAdapter::readFile(filename) returns: the error raised ("None": the
\* table is constructed) and the name of the entry whose table is moved
\* into the new table. With no entry in the mapping and an empty tablename
\* cbegin() is the end of the map and is dereferenced: the pointer read
\* there is no table, and the dynamic_cast of it crashes or yields null.
constructFromFileOutcomes(absTables, tablename, type) ==
    LET selected(name) ==
            IF absTables[name].type # type
            THEN {[err |-> "InvalidArgument", name |-> name]}
            ELSE {[err |-> "None", name |-> name]}
    IN  IF Cardinality(DOMAIN absTables) > 1 /\ tablename = ""
        THEN {[err |-> "InvalidArgument", name |-> ""]}
        ELSE IF tablename = ""
        THEN IF DOMAIN absTables = {}
             THEN {[err |-> "EndIteratorDereference", name |-> ""],
                   [err |-> "InvalidArgument", name |-> ""]}
             ELSE selected(cbegin(absTables))
        ELSE IF tablename \notin DOMAIN absTables
        THEN {[err |-> "InvalidArgument", name |-> tablename]}
        ELSE selected(tablename)

\* DataTable_<double, double>{filename, tablename}: the table of the model
\* becomes the table constructed; with an error no table is constructed.
constructFromFile(absTables, tablename) ==
    /\ Idle
    /\ Fresh
    /\ \E o \in constructFromFileOutcomes(absTables, tablename, <<>>) :
        LET ok == o.err = "None"
            table == absTables[o.name].table
        IN  /\ last' = [NoCall EXCEPT !.op = "constructFromFile",
                                      !.err = o.err,
                                      !.absTables = absTables,
                                      !.tablename = tablename]
            /\ indData' = IF ok THEN table.indData ELSE indData
            /\ depData' = IF ok THEN table.depData ELSE depData
            /\ dependentsMetaData' =
                 IF ok THEN table.dependentsMetaData ELSE dependentsMetaData
            /\ independentMetaData' =
                 IF ok THEN table.independentMetaData ELSE independentMetaData
            /\ tableMetaData' =
                 IF ok THEN table.tableMetaData ELSE tableMetaData
    /\ pre' = Snapshot

\* The tables a file holds: one labelled column and one or two rows.
FileTablesOfSize(R) ==
    {SourceTable(<<>>, data, 1,
                 [md |-> [k \in {"labels"} |-> LabelsOfLength(1)],
                  stringKeys |-> {}], 0) :
        data \in [1..R -> SourceRows(<<>>, 1)]}

FileTables == FileTablesOfSize(1) \cup FileTablesOfSize(2)

\* The entries of a mapping: a table of doubles or a table of SimTK::Vec<2>
\* (type is the element shape of the concrete table; the columns of a table
\* of another type than the one constructed are never read).
FileEntries ==
    {[type |-> t, table |-> x] : t \in {<<>>, <<2>>}, x \in FileTables}

\* The mappings the file adapter returns: no table, one table, two tables.
Mappings ==
    UNION {[D -> FileEntries] :
             D \in SUBSET {TableNames[i] : i \in 1..Len(TableNames)}}

TableNameArguments == {"", "forces", "markers", "other"}

\* The caller is done with the outcome of its call (the view it was
\* returned, the exception it caught) and goes on to its next call.
Return ==
    /\ ~Idle
    /\ last' = NoCall
    /\ pre' = Snapshot
    /\ UNCHANGED <<indData, depData, dependentsMetaData,
                   independentMetaData, tableMetaData>>

----------------------------------------------------------------------------

Init ==
    /\ indData = <<>>
    /\ depData = EmptyMatrix
    /\ dependentsMetaData = NoMetaData
    /\ independentMetaData = NoMetaData
    /\ tableMetaData = NoMetaData
    /\ last = NoCall
    /\ pre = [indData |-> <<>>, depData |-> EmptyMatrix,
              dependentsMetaData |-> NoMetaData,
              independentMetaData |-> NoMetaData,
              tableMetaData |-> NoMetaData]

Next ==
    \/ \E a \in LabelArrays : setColumnLabels(a)
    \/ \E md \in DependentsMetaDatas : setDependentsMetaData(md)
    \/ \E v \in IndVals, r \in Rows : appendRow(v, r)
    \/ \E i \in Indices, v \in IndVals : setIndependentValueAtIndex(i, v)
    \/ \E i \in Indices : getRowAtIndex(i)
    \/ \E v \in IndVals : getRow(v)
    \/ \E j \in ColIndices : getDependentColumnAtIndex(j)
    \/ \E i \in Indices, r \in RowsOfWidth(depData.ncol) : updRowAtIndex(i, r)
    \/ \E v \in IndVals, r \in RowsOfWidth(depData.ncol) : updRow(v, r)
    \/ \E l \in ColumnLabels : getDependentColumn(l)
    \/ \E j \in ColIndices, e \in Elems : updDependentColumnAtIndex(j, e)
    \/ \E l \in ColumnLabels, e \in Elems : updDependentColumn(l, e)
    \/ \E rs \in Spans(MaxRows), cs \in Spans(MaxWidth) :
           getMatrixBlock(rs[1], cs[1], rs[2], cs[2])
    \/ \E rs \in Spans(MaxRows), cs \in Spans(MaxWidth), e \in Elems :
           updMatrixBlock(rs[1], cs[1], rs[2], cs[2], e)
    \/ \E e \in Elems : updMatrix(e)
    \/ Return

Spec == Init /\ [][Next]_vars

\* The rows of zeros, the rows the metadata is explored with.
ZeroRows == {[c \in 1..w |-> 0] : w \in 0..MaxWidth}

\* The table and its metadata: the metadata stores set and validated on
\* tables of every width.
NextMetaData ==
    \/ \E a \in LabelArrays : setColumnLabels(a)
    \/ \E md \in DependentsMetaDatasWithKeys : setDependentsMetaData(md)
    \/ \E md \in IndependentMetaDatas : setIndependentMetaData(md)
    \/ \E md \in TableMetaDatas : updTableMetaData(md)
    \/ \E r \in ZeroRows : appendRow(0, r)
    \/ validateDependentsMetaDataCall
    \/ validateIndependentMetaDataCall
    \/ Return

SpecMetaData == Init /\ [][NextMetaData]_vars

\* The flattening of tables of composite elements into the table.
NextFlatten ==
    \/ Idle /\ Fresh /\ \E shape \in Shapes :
         \E that \in Sources(shape), suffixes \in SuffixLists :
            flatten(that, suffixes)
    \/ Idle /\ Fresh /\ \E that \in Sources(<<>>) : flattenScalar(that)
    \/ Return

SpecFlatten == Init /\ [][NextFlatten]_vars

\* The rows of the scenario of testDataTable.cpp: the row appended with the
\* independent value v holds v, v + 1, ... (the test appends row + i).
ScenarioVals == 0..MaxRows
ScenarioRow(v, n) == [c \in 1..n |-> v + c - 1]

\* Label, then append: the labels are set and replaced while the table has
\* no rows, then rows as wide as the labels in force are appended, each with
\* an independent value that no row has, and rows are read by value.
NextScenario ==
    \/ \E a \in LabelArrays :
         /\ indData = <<>>
         /\ setColumnLabels(a)
         /\ last'.err = "None"
    \/ \E md \in DependentsMetaDatasWithKeys :
         /\ indData = <<>>
         /\ setDependentsMetaData(md)
         /\ last'.err = "None"
    \/ \E v \in ScenarioVals :
         /\ HasKey(dependentsMetaData, "labels")
         /\ \A i \in 1..Len(indData) : indData[i] # v
         /\ appendRow(v, ScenarioRow(v, Len(dependentsMetaData["labels"])))
    \/ \E v \in ScenarioVals : getRow(v)
    \/ Return

SpecScenario == Init /\ [][NextScenario]_vars

\* The time-series table: labels, appended rows that its hook accepts or
\* rejects, and reads.
NextTimeSeries ==
    \/ \E a \in LabelArrays : setColumnLabels(a)
    \/ \E v \in ScenarioVals, r \in Rows : appendRowHooked(v, r)
    \/ \E i \in Indices : getRowAtIndex(i)
    \/ \E v \in ScenarioVals : getRow(v)
    \/ Return

SpecTimeSeries == Init /\ [][NextTimeSeries]_vars

\* The block accessors on tables of one column and up to MaxBlockRows rows:
\* every append is of a row as wide as the table, so the independent column
\* is as long as the matrix has rows.
NextBlocks ==
    \/ \E e \in Elems : appendRowOfBlockTable(Len(indData), <<e>>)
    \/ \E rs \in Spans(MaxBlockRows), cs \in {<<0, 1>>, <<0, -1>>} :
           getMatrixBlock(rs[1], cs[1], rs[2], cs[2])
    \/ \E rs \in Spans(MaxBlockRows), cs \in {<<0, 1>>, <<0, -1>>} :
           updMatrixBlock(rs[1], cs[1], rs[2], cs[2], 0)
    \/ Return

SpecBlocks == Init /\ [][NextBlocks]_vars

\* The construction of the table from a file.
NextFile ==
    \/ Idle /\ Fresh /\ \E absTables \in Mappings :
         \E tablename \in TableNameArguments :
            constructFromFile(absTables, tablename)
    \/ Return

SpecFile == Init /\ [][NextFile]_vars

----------------------------------------------------------------------------
(* Properties.                                                             *)

Called(name) == last.op = name
Returned(name) == last.op = name /\ last.err = "None"
Failed(name) == last.op = name /\ last.err # "None"

\* C1: in every reachable state the length of the independent column equals
\* the number of rows of the dependent matrix.
C1_IndependentColumnMatchesRows == Len(indData) = implementGetNumRows

\* C2: after an appendRow that returns without error the row count is the
\* previous row count plus one and the independent column is as long as the
\* matrix has rows, for rows of any width, zero included.
C2_AppendRowAddsOneRow ==
    Returned("appendRow") =>
        /\ implementGetNumRows = pre.depData.nrow + 1
        /\ Len(indData) = implementGetNumRows

\* C3: appendRow has no partial success: a call that fails leaves the
\* independent column, the matrix and the three metadata stores as they
\* were, and a call that returns has written the independent value and the
\* row.
C3_AppendRowAllOrNothing ==
    /\ Failed("appendRow") => Snapshot = pre
    /\ Returned("appendRow") =>
        /\ indData = Append(pre.indData, last.ind)
        /\ depData.nrow >= 1
        /\ depData.data[depData.nrow] = last.row

\* C4: on a table with at least one row, appendRow of a row whose width is
\* not the column count fails with IncorrectNumColumns and leaves the row
\* count and the column count as they were.
C4_WidthMismatchIsRejected ==
    (/\ Called("appendRow")
     /\ pre.depData.nrow >= 1
     /\ Len(last.row) # pre.depData.ncol) =>
        /\ last.err = "IncorrectNumColumns"
        /\ depData.nrow = pre.depData.nrow
        /\ depData.ncol = pre.depData.ncol

\* C5: on an appendRow to a table with no rows, with "labels" in the
\* dependents metadata a row whose width is not the number of labels fails
\* with IncorrectNumColumns carrying expected = the number of labels and
\* actual = the width; with no "labels" a row of any width is accepted and
\* the column count becomes its width.
C5_FirstAppendChecksLabels ==
    (Called("appendRow") /\ pre.depData.nrow = 0) =>
        IF HasKey(pre.dependentsMetaData, "labels")
        THEN Len(last.row) # Len(pre.dependentsMetaData["labels"]) =>
                /\ last.err = "IncorrectNumColumns"
                /\ last.expected = Len(pre.dependentsMetaData["labels"])
                /\ last.actual = Len(last.row)
        ELSE /\ last.err = "None"
             /\ implementGetNumColumns = Len(last.row)

C5_Witness ==
    /\ Called("appendRow")
    /\ pre.depData.nrow = 0
    /\ HasKey(pre.dependentsMetaData, "labels")
    /\ Len(pre.dependentsMetaData["labels"]) = 2
    /\ Len(last.row) = 1
    /\ last.err = "IncorrectNumColumns"

\* C6: after an appendRow(v, r) that returns on a table with n rows, the
\* independent values and the rows at the indices below n are unchanged, the
\* independent value at n is v and row n is r.
C6_AppendRowKeepsEarlierRows ==
    Returned("appendRow") =>
        LET n == pre.depData.nrow
        IN  /\ \A i \in 0..(n - 1) :
                /\ indData[i + 1] = pre.indData[i + 1]
                /\ i < depData.nrow
                /\ depData.data[i + 1] = pre.depData.data[i + 1]
            /\ n < Len(indData)
            /\ indData[n + 1] = last.ind
            /\ n < depData.nrow
            /\ depData.data[n + 1] = last.row

\* C7: once the table has a row (a first appendRow has returned), no later
\* call changes the column count.
C7_ColumnCountIsFixed ==
    (~Idle /\ pre.depData.nrow >= 1) =>
        implementGetNumColumns = pre.depData.ncol

Contents(outcomes) == {[err |-> o.err, res |-> o.res] : o \in outcomes}
Targets(outcomes) == {o.target : o \in outcomes}
ValidRowIndices == 0..(implementGetNumRows - 1)

\* The smallest index of the independent column holding the value of index i.
FirstIndexWithValueOf(i) ==
    CHOOSE j \in 0..i :
        /\ indData[j + 1] = indData[i + 1]
        /\ \A k \in 0..(j - 1) : indData[k + 1] # indData[i + 1]

\* C8 as stated: for every valid row index i, getRowAtIndex(i) and
\* getRow(independentColumn[i]) return the same contents, and updRowAtIndex(i)
\* and updRow(independentColumn[i]) address the same row.
C8_RowByIndexIsRowByValue ==
    \A i \in ValidRowIndices :
        /\ Contents(getRowAtIndexOutcomes(i))
             = Contents(getRowOutcomes(indData[i + 1]))
        /\ Targets(updRowAtIndexOutcomes(i))
             = Targets(updRowOutcomes(indData[i + 1]))

\* C8 as amended: for every valid row index i, getRow(independentColumn[i])
\* returns the contents of getRowAtIndex(j) and updRow(independentColumn[i])
\* addresses the row of updRowAtIndex(j), where j is the smallest index whose
\* independent value equals independentColumn[i]; j is i itself when no
\* earlier index holds that value.
C8_RowByValueIsFirstMatchingRow ==
    \A i \in ValidRowIndices :
        LET j == FirstIndexWithValueOf(i)
        IN  /\ Contents(getRowOutcomes(indData[i + 1]))
                 = Contents(getRowAtIndexOutcomes(j))
            /\ Contents(getRowOutcomes(indData[i + 1]))
                 = {[err |-> "None", res |-> depData.data[j + 1]]}
            /\ Targets(updRowOutcomes(indData[i + 1]))
                 = Targets(updRowAtIndexOutcomes(j))
            /\ Targets(updRowOutcomes(indData[i + 1])) = {j}

C8_Witness ==
    /\ Returned("getRow")
    /\ implementGetNumRows >= 2
    /\ indData[1] = indData[2]
    /\ depData.data[1] # depData.data[2]
    /\ last.ind = indData[2]
    /\ last.res = depData.data[1]

\* C9: getRow(v) and updRow(v) return the row at the smallest index whose
\* independent value is v, and fail with KeyNotFound exactly when no entry of
\* the independent column is v.
C9_GetRowReturnsFirstMatch ==
    \A v \in IndVals :
        LET matches == {j \in 0..(Len(indData) - 1) : indData[j + 1] = v}
        IN  \A o \in getRowOutcomes(v) \cup updRowOutcomes(v) :
                IF matches = {}
                THEN o.err = "KeyNotFound"
                ELSE LET j == CHOOSE m \in matches :
                                  \A k \in matches : m <= k
                     IN  /\ o.err = "None"
                         /\ o.target = j
                         /\ j < depData.nrow
                         /\ o.res = depData.data[j + 1]

\* C10: getRowAtIndex(i) with i >= the row count fails with
\* RowIndexOutOfRange, and getDependentColumnAtIndex(j) with j >= the column
\* count fails with ColumnIndexOutOfRange; each error carries the index given
\* and the bounds [0, count - 1] of the current count.
C10_OutOfRangeCarriesBounds ==
    /\ (Called("getRowAtIndex") /\ last.index >= implementGetNumRows) =>
          /\ last.err = "RowIndexOutOfRange"
          /\ last.thrown = last.index
          /\ last.lo = 0
          /\ Denotes(last.hi, implementGetNumRows - 1)
    /\ (Called("getDependentColumnAtIndex")
        /\ last.index >= implementGetNumColumns) =>
          /\ last.err = "ColumnIndexOutOfRange"
          /\ last.thrown = last.index
          /\ last.lo = 0
          /\ Denotes(last.hi, implementGetNumColumns - 1)

\* C11: setIndependentValueAtIndex(i, value) validates before it commits: with
\* i not a valid row index it fails with RowIndexOutOfRange, and with the
\* validation hook rejecting (i, value, row i) it fails with the hook's
\* error, the independent column unchanged in both cases; a call that
\* returns has changed independentColumn[i] to value and nothing else.
C11_SetIndependentValueValidatesFirst ==
    Called("setIndependentValueAtIndex") =>
        LET i == last.index
            rejection == IF i < pre.depData.nrow
                         THEN validateRow(i, last.ind, pre.depData.data[i + 1])
                         ELSE "None"
        IN  /\ i >= pre.depData.nrow =>
                /\ last.err = "RowIndexOutOfRange"
                /\ indData = pre.indData
            /\ rejection # "None" =>
                /\ last.err = rejection
                /\ indData = pre.indData
            /\ last.err = "None" =>
                /\ i < Len(pre.indData)
                /\ indData = [pre.indData EXCEPT ![i + 1] = last.ind]
                /\ depData = pre.depData
                /\ implementGetNumRows = pre.depData.nrow
                /\ dependentsMetaData = pre.dependentsMetaData
                /\ independentMetaData = pre.independentMetaData
                /\ tableMetaData = pre.tableMetaData

\* The cells (r, c) of mat with rowStart <= r < rowStart + numRows and
\* columnStart <= c < columnStart + numColumns, row by row.
CellsOf(mat, rowStart, columnStart, numRows, numColumns) ==
    [r \in 1..numRows |->
        [c \in 1..numColumns |-> mat.data[rowStart + r][columnStart + c]]]

\* C12: getMatrixBlock and updMatrixBlock(rowStart, colStart, numRows,
\* numCols) fail with InvalidArgument when numRows or numCols is zero, with
\* RowIndexOutOfRange when rowStart + numRows - 1 is not a valid row index,
\* with ColumnIndexOutOfRange when colStart + numCols - 1 is not a valid
\* column index, and otherwise return exactly the cells of the block (a
\* write through the view of updMatrixBlock changes exactly those cells).
C12_BlockErrorsAndCells ==
    (Called("getMatrixBlock") \/ Called("updMatrixBlock")) =>
        LET rowStart == last.block[1]
            colStart == last.block[2]
            numRows == last.block[3]
            numCols == last.block[4]
            \* a negative argument of the model is a value just below 2^64
            lastRowValid == /\ rowStart >= 0 /\ numRows > 0
                            /\ rowStart + numRows - 1 < pre.depData.nrow
            lastColValid == /\ colStart >= 0 /\ numCols > 0
                            /\ colStart + numCols - 1 < pre.depData.ncol
        IN  IF numRows = 0 \/ numCols = 0
            THEN last.err = "InvalidArgument"
            ELSE IF ~lastRowValid THEN last.err = "RowIndexOutOfRange"
            ELSE IF ~lastColValid THEN last.err = "ColumnIndexOutOfRange"
            ELSE /\ last.err = "None"
                 /\ last.res = CellsOf(pre.depData, rowStart, colStart,
                                       numRows, numCols)
                 /\ Called("updMatrixBlock") =>
                        depData = FillBlock(pre.depData, rowStart, colStart,
                                            numRows, numCols, last.ind)

\* C13: column access by label and by index agree: for every label L at
\* position k of the "labels" array, getDependentColumn(L) and
\* updDependentColumn(L) address the column that getDependentColumnAtIndex(k)
\* and updDependentColumnAtIndex(k) address; a label that is not in the array
\* fails with KeyNotFound, and an index >= the column count fails with
\* ColumnIndexOutOfRange.
C13_ColumnByLabelIsColumnByIndex ==
    /\ HasKey(dependentsMetaData, "labels") =>
         \A k \in 0..(Len(dependentsMetaData["labels"]) - 1) :
            LET L == dependentsMetaData["labels"][k + 1]
            IN  /\ Contents(getDependentColumnOutcomes(L))
                     = Contents(getDependentColumnAtIndexOutcomes(k))
                /\ Contents(updDependentColumnOutcomes(L))
                     = Contents(updDependentColumnAtIndexOutcomes(k))
                /\ Targets(updDependentColumnOutcomes(L))
                     = Targets(updDependentColumnAtIndexOutcomes(k))
    /\ \A L \in ColumnLabels :
         (~HasKey(dependentsMetaData, "labels")
          \/ \A k \in 1..Len(dependentsMetaData["labels"]) :
                dependentsMetaData["labels"][k] # L) =>
            \A o \in getDependentColumnOutcomes(L)
                       \cup updDependentColumnOutcomes(L) :
                o.err = "KeyNotFound"
    /\ \A j \in ColIndices :
         j >= implementGetNumColumns =>
            \A o \in getDependentColumnAtIndexOutcomes(j)
                       \cup updDependentColumnAtIndexOutcomes(j) :
                o.err = "ColumnIndexOutOfRange"

\* The last call validated the dependents metadata and found nothing wrong.
DependentsValidated ==
    /\ last.op \in {"validateDependentsMetaData", "setColumnLabels",
                    "setDependentsMetaData"}
    /\ last.err = "None"

ErrorKindOf(md, ncol, zeroExempt) ==
    IF ~HasKey(md, "labels") THEN "MissingMetaData"
    ELSE IF Len(md["labels"]) = 0 THEN "MetaDataLengthZero"
    ELSE IF \/ /\ Len(md["labels"]) # ncol
               /\ ~(zeroExempt /\ ncol = 0)
            \/ \E key \in DOMAIN md : Len(md[key]) # Len(md["labels"])
    THEN "IncorrectMetaDataLength"
    ELSE "None"

C16_IndependentLabelsRequired ==
    (Called("validateIndependentMetaData")
     \/ Called("setIndependentMetaData")) =>
        IF HasKey(independentMetaData, "labels")
        THEN last.err = "None"
        ELSE last.err = "MissingMetaData"

C16_Witness ==
    /\ Failed("validateIndependentMetaData")
    /\ last.err = "MissingMetaData"
    /\ DOMAIN independentMetaData = {"column-index"}

C19_FlattenLabelLaw ==
    Returned("flatten") =>
        LET L == last.that.dependentsMetaData["labels"]
            C == Len(L)
            N == numComponentsPerElement_impl(last.that.shape)
            suffix(k) == IF last.suffixes = <<>> THEN "_" \o ToString(k)
                         ELSE last.suffixes[k]
        IN  /\ HasKey(dependentsMetaData, "labels")
            /\ Len(dependentsMetaData["labels"]) = C * N
            /\ \A c \in 0..(C - 1) : \A k \in 1..N :
                  dependentsMetaData["labels"][c * N + k]
                    = L[c + 1] \o suffix(k)

C19_Witness ==
    /\ Returned("flatten")
    /\ last.that.shape = <<2>>
    /\ last.that.dependentsMetaData["labels"] = <<"1", "2">>
    /\ Len(last.suffixes) = 2
    /\ dependentsMetaData["labels"] = <<"1_s1", "1_s2", "2_s1", "2_s2">>

\* Component k (counted from 0) of an element: for a vector of vectors
\* k = i * inner + j, the outer index i major.
ComponentOf(elem, shape, k) ==
    IF Len(shape) = 1 THEN elem[k + 1]
    ELSE elem[(k \div shape[2]) + 1][(k % shape[2]) + 1]

\* C20: for a source with R rows, C columns and N components per element the
\* flattened table has R rows and C * N columns, its independent column is
\* the source's, and its cell (r, c * N + k) is component k of the source's
\* cell (r, c).
C20_FlattenRowExpansion ==
    Returned("flatten") =>
        LET that == last.that
            R == that.depData.nrow
            C == that.depData.ncol
            N == numComponentsPerElement_impl(that.shape)
        IN  /\ implementGetNumRows = R
            /\ implementGetNumColumns = C * N
            /\ indData = that.indData
            /\ \A r \in 0..(R - 1) : \A c \in 0..(C - 1) : \A k \in 0..(N - 1) :
                  depData.data[r + 1][c * N + k + 1]
                    = ComponentOf(that.depData.data[r + 1][c + 1],
                                  that.shape, k)

\* C21: in the flattened table every key other than "labels" whose array in
\* the source holds the strings m_0 .. m_{C-1} has the array in which each
\* m_c is repeated N times consecutively, in column order, of length C * N.
C21_FlattenReplicatesStringMetaData ==
    Returned("flatten") =>
        LET that == last.that
            N == numComponentsPerElement_impl(that.shape)
        IN  \A key \in that.stringKeys :
              LET m == that.dependentsMetaData[key]
              IN  /\ HasKey(dependentsMetaData, key)
                  /\ Len(dependentsMetaData[key]) = Len(m) * N
                  /\ \A c \in 0..(Len(m) - 1) : \A k \in 1..N :
                        dependentsMetaData[key][c * N + k] = m[c + 1]

C21_Witness ==
    /\ Returned("flatten")
    /\ last.that.shape = <<2>>
    /\ last.that.stringKeys = {"units"}
    /\ last.that.dependentsMetaData["units"] = <<"u1", "u2">>
    /\ dependentsMetaData["units"] = <<"u1", "u1", "u2", "u2">>

\* C22: when the dependents metadata of the source has a key other than
\* "labels" whose array does not hold strings, a flattening whose arguments
\* are accepted succeeds, and the table it returns lacks that key and has
\* the labels and every key whose array holds strings.
C22_FlattenDropsNonStringMetaData ==
    LET that == last.that
        nonString == DOMAIN that.dependentsMetaData
                       \ (that.stringKeys \cup {"labels"})
    IN  (/\ Called("flatten")
         /\ checkFlattenArguments(that, last.suffixes) = "None"
         /\ nonString # {}) =>
            /\ last.err = "None"
            /\ \A key \in nonString : ~HasKey(dependentsMetaData, key)
            /\ \A key \in that.stringKeys \cup {"labels"} :
                  HasKey(dependentsMetaData, key)

\* C23: flatten() of a table of scalars gives a table with the row count,
\* the column count, the independent column and the cells of the source,
\* and with the label L + "_1" for each label L of the source.
C23_ScalarFlattenSuffixesLabels ==
    Returned("flattenScalar") =>
        LET that == last.that
        IN  /\ implementGetNumRows = that.depData.nrow
            /\ implementGetNumColumns = that.depData.ncol
            /\ indData = that.indData
            /\ depData.data = that.depData.data
            /\ HasKey(that.dependentsMetaData, "labels") =>
                  /\ HasKey(dependentsMetaData, "labels")
                  /\ dependentsMetaData["labels"]
                       = [c \in 1..Len(that.dependentsMetaData["labels"]) |->
                            that.dependentsMetaData["labels"][c] \o "_1"]

\* The entry the claim C24 calls selected: the named one, or the only one
\* when the name is empty.
SelectedEntry(absTables, tablename) ==
    IF tablename # "" THEN absTables[tablename]
    ELSE absTables[CHOOSE name \in DOMAIN absTables : TRUE]

\* C24: the construction from a file fails with InvalidArgument if the
\* mapping holds more than one table and the name is empty, if a name that
\* is not empty is no key of the mapping, or if the type of the selected
\* table is not the type constructed; otherwise the new table has the
\* contents of the selected table.
C24_ConstructFromFile ==
    Called("constructFromFile") =>
        LET absTables == last.absTables
            tablename == last.tablename
            n == Cardinality(DOMAIN absTables)
            ambiguous == n > 1 /\ tablename = ""
            absent == tablename # "" /\ tablename \notin DOMAIN absTables
            isSelected == ~ambiguous /\ ~absent /\ (tablename # "" \/ n = 1)
            mismatch ==
                isSelected /\ SelectedEntry(absTables, tablename).type # <<>>
        IN  /\ (ambiguous \/ absent \/ mismatch) =>
                  last.err = "InvalidArgument"
            /\ (isSelected /\ ~mismatch) =>
                  LET table == SelectedEntry(absTables, tablename).table
                  IN  /\ last.err = "None"
                      /\ indData = table.indData
                      /\ depData = table.depData
                      /\ dependentsMetaData = table.dependentsMetaData
                      /\ independentMetaData = table.independentMetaData
                      /\ tableMetaData = table.tableMetaData

C24_Witness ==
    /\ Returned("constructFromFile")
    /\ DOMAIN last.absTables = {"forces", "markers"}
    /\ last.tablename = "markers"
    /\ last.absTables["forces"].type = <<>>
    /\ last.absTables["forces"].table.depData.data = <<<<0>>>>
    /\ depData.data = <<<<1>>>>

\* C30: for every mapping, the empty one with an empty name included, the
\* construction from a file fails with InvalidArgument or takes the
\* contents of an entry that is in the mapping.
C30_ConstructFromFileReadsAnEntry ==
    Called("constructFromFile") =>
        \/ last.err = "InvalidArgument"
        \/ /\ last.err = "None"
           /\ \E name \in DOMAIN last.absTables :
                 /\ indData = last.absTables[name].table.indData
                 /\ depData = last.absTables[name].table.depData

\* C25: after the labels are set (and replaced while the table has no rows)
\* and k >= 1 rows as wide as the n labels in force are appended with
\* independent values that differ from each other, the table has k rows and
\* n columns, and getRow of the value of the i-th append returns the row of
\* the i-th append.
C25_LabelThenAppend ==
    (HasKey(dependentsMetaData, "labels") /\ indData # <<>>) =>
        LET n == Len(dependentsMetaData["labels"])
            k == Len(indData)
        IN  /\ implementGetNumRows = k
            /\ implementGetNumColumns = n
            /\ \A i \in 1..k : Called("getRow") /\ last.ind = indData[i] =>
                  /\ last.err = "None"
                  /\ last.res = ScenarioRow(indData[i], n)

C25_Witness ==
    /\ Returned("getRow")
    /\ dependentsMetaData["labels"] = <<"1", "2">>
    /\ indData = <<1, 0>>
    /\ last.ind = 1
    /\ last.res = <<1, 2>>
    /\ depData.nrow = 2

\* C26: when the validateRow hook of a specialization rejects a row,
\* appendRow raises the error of the hook before it changes anything: the
\* independent column, the matrix (its row count, column count and cells)
\* and the metadata are after the failed call what they were before it.
C26_HookRejectsBeforeMutation ==
    (Called("appendRow") /\ last.err = "InvalidRow") =>
        /\ indData = pre.indData
        /\ depData = pre.depData
        /\ dependentsMetaData = pre.dependentsMetaData
        /\ independentMetaData = pre.independentMetaData
        /\ tableMetaData = pre.tableMetaData

C26_Witness ==
    /\ Called("appendRow")
    /\ last.err = "InvalidRow"
    /\ indData = <<1>>
    /\ last.ind = 0
    /\ depData.data = <<<<1, 0>>>>
    /\ last.row = <<0, 0>>

\* The matrix is the matrix before the call with written(r, c) in the cells
\* for which target(r, c) holds.
WrittenExactly(target(_, _), written(_, _)) ==
    /\ depData.nrow = pre.depData.nrow
    /\ depData.ncol = pre.depData.ncol
    /\ \A r \in 1..depData.nrow : \A c \in 1..depData.ncol :
          depData.data[r][c] = IF target(r, c) THEN written(r, c)
                               ELSE pre.depData.data[r][c]

\* C27: the views alias the one matrix. A write through a view that
\* updRowAtIndex, updRow, updDependentColumnAtIndex, updDependentColumn,
\* updMatrixBlock or updMatrix returned is a write to a row, a column or a
\* block of the matrix: it changes the cells of that view and no other
\* cell; updMatrixBlock(0, 0, rowCount, colCount) writes every cell, as
\* updMatrix does; and getRowAtIndex, getRow, getDependentColumnAtIndex and
\* getMatrixBlock return the cells of the matrix.
C27_ViewsAliasTheMatrix ==
    LET rowOf(v) == CHOOSE j \in 1..Len(pre.indData) :
                        /\ pre.indData[j] = v
                        /\ \A i \in 1..(j - 1) : pre.indData[i] # v
        value(r, c) == last.ind
        newRow(r, c) == last.row[c]
        b == last.block
    IN  /\ Returned("updRowAtIndex") =>
              LET T(r, c) == r = last.index + 1
              IN  last.index < depData.nrow /\ WrittenExactly(T, newRow)
        /\ Returned("updRow") =>
              LET T(r, c) == r = rowOf(last.ind)
              IN  rowOf(last.ind) <= depData.nrow /\ WrittenExactly(T, newRow)
        /\ Returned("updDependentColumnAtIndex") =>
              LET T(r, c) == c = last.index + 1
              IN  last.index < depData.ncol /\ WrittenExactly(T, value)
        /\ Returned("updDependentColumn") =>
              LET T(r, c) == c = getColumnIndex(last.label) + 1
              IN  /\ getColumnIndex(last.label) < depData.ncol
                  /\ WrittenExactly(T, value)
        /\ Returned("updMatrixBlock") =>
              LET T(r, c) == /\ b[1] < r /\ r <= b[1] + b[3]
                             /\ b[2] < c /\ c <= b[2] + b[4]
              IN  /\ BlockInside(depData, b[1], b[2], b[3], b[4])
                  /\ WrittenExactly(T, value)
        /\ Returned("updMatrix") =>
              LET T(r, c) == TRUE
              IN  WrittenExactly(T, value)
        /\ Returned("getRowAtIndex") =>
              /\ last.index < depData.nrow
              /\ last.res = depData.data[last.index + 1]
        /\ Returned("getRow") =>
              /\ rowOf(last.ind) <= depData.nrow
              /\ last.res = depData.data[rowOf(last.ind)]
        /\ Returned("getDependentColumnAtIndex") =>
              /\ last.index < depData.ncol
              /\ last.res = [r \in 1..depData.nrow |->
                               depData.data[r][last.index + 1]]
        /\ Returned("getMatrixBlock") =>
              /\ BlockInside(depData, b[1], b[2], b[3], b[4])
              /\ last.res = [r \in 1..b[3] |-> [c \in 1..b[4] |->
                               depData.data[b[1] + r][b[2] + c]]]

\* The call passed the checks of the table: the index it holds went to the
\* matrix (which returned a view, or raised an error of its own).
ReachedTheMatrix(name) ==
    last.op = name /\ last.err \in {"None", "SimTKException"}

\* C28: every accessor that returns a view indexes the matrix inside its
\* dimensions: a row index that getRowAtIndex, updRowAtIndex,
\* setIndependentValueAtIndex or getMatrixBlock accepts, or that getRow or
\* updRow finds, is less than the row count of the matrix, and the column
\* index that getDependentColumn or updDependentColumn resolves from a
\* label is less than its column count.
C28_ViewsIndexInsideTheMatrix ==
    LET rowOf(v) == CHOOSE j \in 1..Len(pre.indData) :
                        /\ pre.indData[j] = v
                        /\ \A i \in 1..(j - 1) : pre.indData[i] # v
    IN  /\ \A name \in {"getRowAtIndex", "updRowAtIndex",
                         "setIndependentValueAtIndex"} :
              ReachedTheMatrix(name) => last.index < pre.depData.nrow
        /\ ReachedTheMatrix("getMatrixBlock") =>
              last.block[1] < pre.depData.nrow
        /\ \A name \in {"getRow", "updRow"} :
              ReachedTheMatrix(name) => rowOf(last.ind) <= pre.depData.nrow
        /\ \A name \in {"getDependentColumn", "updDependentColumn"} :
              ReachedTheMatrix(name) =>
                  getColumnIndex(last.label) < pre.depData.ncol

\* C29: with the size_t arguments taken modulo 2^64 (a negative number s of
\* the model is the argument 2^64 + s), a call of getMatrixBlock or
\* updMatrixBlock passes the range checks only if, as unbounded integers,
\* rowStart + numRows <= rowCount and columnStart + numColumns <= colCount.
C29_BlockLastIndexDoesNotWrap ==
    \A name \in {"getMatrixBlock", "updMatrixBlock"} :
        ReachedTheMatrix(name) =>
            LET b == last.block
            IN  /\ b[1] >= 0 /\ b[2] >= 0 /\ b[3] >= 0 /\ b[4] >= 0
                /\ b[1] + b[3] <= pre.depData.nrow
                /\ b[2] + b[4] <= pre.depData.ncol

====
